---- MODULE Spec2Model ----
(***************************************************************************)
(* Model of the video upload pipeline of handler_upload_video.go:          *)
(* handlerUploadVideo, getVideoAspectRatio and processVideoForFastStart.   *)
(* Strings are sequences of one-character strings, so that formatting,     *)
(* path derivation and hex encoding are computed, not assumed.             *)
(* float64 values are modelled bit for bit (53-bit significand, round to   *)
(* nearest, ties to even), because the classification compares floats.     *)
(***************************************************************************)
EXTENDS Integers, Sequences, FiniteSets, TLC

\* ------------------------------------------------------------------------
\* Bounds of the model
\* ------------------------------------------------------------------------
\* Largest width and height the probe specification enumerates.
MaxW == 56
MaxH == 80

\* ------------------------------------------------------------------------
\* float64 arithmetic, as used by getVideoAspectRatio
\* ------------------------------------------------------------------------
\* Width of a float64 significand (implicit bit included).
MantBits == 53

\* The tolerance constant 0.1 as a fraction.
ToleranceNum == 1
ToleranceDen == 10

Zeros(n) == [i \in 1..n |-> 0]

\* First index of a set of indices.
MinOf(S) == CHOOSE i \in S : \A j \in S : i <= j

\* Compare two bit strings of equal length, most significant bit first.
CmpBits(a, b) ==
    LET d == {i \in 1..Len(a) : a[i] # b[i]}
    IN  IF d = {} THEN 0
        ELSE IF a[MinOf(d)] < b[MinOf(d)] THEN -1 ELSE 1

\* Drop leading zero bits.
StripBits(a) ==
    LET nz == {i \in 1..Len(a) : a[i] = 1}
    IN  IF nz = {} THEN <<>> ELSE SubSeq(a, MinOf(nz), Len(a))

\* a - b for equal-length bit strings with a >= b: the borrow into position i
\* is set exactly when the lower part of a is below the lower part of b.
SubBits(a, b) ==
    LET n == Len(a)
        borrow(i) == IF i = n THEN 0
                     ELSE IF CmpBits(SubSeq(a, i + 1, n), SubSeq(b, i + 1, n)) = -1
                          THEN 1 ELSE 0
    IN  [i \in 1..n |-> (a[i] - b[i] - borrow(i) + 2) % 2]

\* a + 1 for a bit string that is not all ones.
IncBits(a) ==
    LET n == Len(a)
        carry(i) == \A j \in (i + 1)..n : a[j] = 1
    IN  [i \in 1..n |-> IF carry(i) THEN 1 - a[i] ELSE a[i]]

\* The float64 zero, infinity and NaN; a finite non-zero float is
\* (-1)^neg * 0.man * 2^(exp+1), man holding MantBits bits with man[1] = 1,
\* that is a value in [2^exp, 2^(exp+1)).
FZero == [kind |-> "zero", neg |-> FALSE, exp |-> 0, man |-> <<>>]
FInf  == [kind |-> "inf",  neg |-> FALSE, exp |-> 0, man |-> <<>>]
FNaN  == [kind |-> "nan",  neg |-> FALSE, exp |-> 0, man |-> <<>>]

\* Round a bit string without leading zeros, whose leading bit has weight
\* 2^exp, to MantBits bits: round to nearest, ties to even.
RoundBits(neg, exp, bits) ==
    LET n == Len(bits)
    IN  IF n = 0 THEN FZero
        ELSE IF n <= MantBits
        THEN [kind |-> "num", neg |-> neg, exp |-> exp,
              man |-> bits \o Zeros(MantBits - n)]
        ELSE LET keep   == SubSeq(bits, 1, MantBits)
                 guard  == bits[MantBits + 1]
                 sticky == \E j \in (MantBits + 2)..n : bits[j] = 1
                 up     == guard = 1 /\ (sticky \/ keep[MantBits] = 1)
                 ones   == \A j \in 1..MantBits : keep[j] = 1
             IN  IF ~up THEN [kind |-> "num", neg |-> neg, exp |-> exp, man |-> keep]
                 ELSE IF ones
                 THEN [kind |-> "num", neg |-> neg, exp |-> exp + 1,
                       man |-> <<1>> \o Zeros(MantBits - 1)]
                 ELSE [kind |-> "num", neg |-> neg, exp |-> exp, man |-> IncBits(keep)]

\* Scale p/q (p, q > 0) to n/d with d <= n < 2d, n/d * 2^e = p/q.
RECURSIVE Normalise(_, _, _)
Normalise(p, q, e) ==
    IF p >= 2 * q THEN Normalise(p, 2 * q, e + 1)
    ELSE IF p < q THEN Normalise(2 * p, q, e - 1)
    ELSE [n |-> p, d |-> q, e |-> e]

\* 2^i modulo d, by halving the exponent (d * d fits the integers used).
RECURSIVE Pow2Mod(_, _)
Pow2Mod(i, d) ==
    IF i <= 16 THEN (2 ^ i) % d
    ELSE (Pow2Mod(i \div 2, d) * Pow2Mod(i - (i \div 2), d)) % d

\* k further quotient bits of rem/d (rem < d) by long division, and the last
\* remainder: the remainder after i steps is rem * 2^i modulo d.
DivBits(rem, d, k) ==
    LET after(i) == (rem * Pow2Mod(i, d)) % d
    IN  [bits |-> [i \in 1..k |-> IF 2 * after(i - 1) >= d THEN 1 ELSE 0],
         rem  |-> after(k)]

\* float64(p) / float64(q) for naturals p and q (both conversions are exact):
\* the correctly rounded quotient; x/0 is +Inf, 0/0 is NaN.
FDiv(p, q) ==
    IF q = 0 THEN (IF p = 0 THEN FNaN ELSE FInf)
    ELSE IF p = 0 THEN FZero
    ELSE LET nm == Normalise(p, q, 0)
             dv == DivBits(nm.n - nm.d, nm.d, MantBits)
             \* MantBits quotient bits, then a guard bit, then a sticky bit
             bits == <<1>> \o dv.bits \o <<IF dv.rem > 0 THEN 1 ELSE 0>>
         IN  RoundBits(FALSE, nm.e, bits)

\* a - b for non-negative a and b, correctly rounded.
FSub(a, b) ==
    IF a.kind = "nan" \/ b.kind = "nan" THEN FNaN
    ELSE IF a.kind = "inf" /\ b.kind = "inf" THEN FNaN
    ELSE IF a.kind = "inf" THEN FInf
    ELSE IF b.kind = "inf" THEN [FInf EXCEPT !.neg = TRUE]
    ELSE IF b.kind = "zero" THEN a
    ELSE IF a.kind = "zero" THEN [b EXCEPT !.neg = TRUE]
    ELSE LET la == a.exp - (MantBits - 1)        \* weight of a's last bit
             lb == b.exp - (MantBits - 1)
             l  == IF la < lb THEN la ELSE lb
             xa == a.man \o Zeros(la - l)
             xb == b.man \o Zeros(lb - l)
             n  == IF Len(xa) > Len(xb) THEN Len(xa) ELSE Len(xb)
             pa == Zeros(n - Len(xa)) \o xa
             pb == Zeros(n - Len(xb)) \o xb
             c  == CmpBits(pa, pb)
             df == IF c >= 0 THEN SubBits(pa, pb) ELSE SubBits(pb, pa)
             st == StripBits(df)
         IN  RoundBits(c < 0, l + Len(st) - 1, st)

\* math.Abs
FAbs(a) == [a EXCEPT !.neg = FALSE]

\* a < b for non-negative a and b; every comparison with NaN is false.
FLess(a, b) ==
    IF a.kind = "nan" \/ b.kind = "nan" THEN FALSE
    ELSE IF a.kind = "inf" THEN FALSE
    ELSE IF b.kind = "inf" THEN TRUE
    ELSE IF b.kind = "zero" THEN FALSE
    ELSE IF a.kind = "zero" THEN TRUE
    ELSE IF a.exp # b.exp THEN a.exp < b.exp
    ELSE CmpBits(a.man, b.man) = -1

\* The constants of the comparison, each rounded once to float64.
tolerance  == FDiv(ToleranceNum, ToleranceDen)
Landscape  == FDiv(16, 9)
Portrait   == FDiv(9, 16)

\* The classification of a first stream of the given width and height.
ClassifyRatio(width, height) ==
    LET ratio == FDiv(width, height)
    IN  IF FLess(FAbs(FSub(ratio, Landscape)), tolerance) THEN "16:9"
        ELSE IF FLess(FAbs(FSub(ratio, Portrait)), tolerance) THEN "9:16"
        ELSE "other"

\* What the probe tool hands back: its exit code, whether its standard
\* output unmarshals into FFProbeOutput, and the streams it lists.
ProbeOutput(exit, parses, streams) ==
    [exit |-> exit, parses |-> parses, streams |-> streams]

Stream(width, height) == [Width |-> width, Height |-> height]

\* The zero values of the pair (string, error), before the function returned.
NoResult == [ratio |-> "", err |-> FALSE]

\* Variant: a first stream without width or height is refused.
getVideoAspectRatioRefusingZero(out) ==
    IF out.exit # 0 \/ ~out.parses \/ Len(out.streams) = 0
    THEN [ratio |-> "", err |-> TRUE]
    ELSE IF out.streams[1].Width = 0 \/ out.streams[1].Height = 0
    THEN [ratio |-> "", err |-> TRUE]
    ELSE [ratio |-> ClassifyRatio(out.streams[1].Width, out.streams[1].Height),
          err |-> FALSE]

\* getVideoAspectRatio: the returned pair (string, error).
getVideoAspectRatio(out) ==
    IF out.exit # 0 THEN [ratio |-> "", err |-> TRUE]
    ELSE IF ~out.parses THEN [ratio |-> "", err |-> TRUE]
    ELSE IF Len(out.streams) = 0 THEN [ratio |-> "", err |-> TRUE]
    ELSE [ratio |-> ClassifyRatio(out.streams[1].Width, out.streams[1].Height),
          err |-> FALSE]

\* ------------------------------------------------------------------------
\* Strings, paths and formatting
\* ------------------------------------------------------------------------
Digits == <<"0", "1", "2", "3", "4", "5", "6", "7", "8", "9">>
HexDigits == Digits \o <<"a", "b", "c", "d", "e", "f">>

\* Variant: the verb %X, upper-case hex digits.
HexUpper(bytes) ==
    LET upper == Digits \o <<"A", "B", "C", "D", "E", "F">>
    IN  [i \in 1..(2 * Len(bytes)) |->
            LET b == bytes[(i + 1) \div 2]
            IN  IF i % 2 = 1 THEN upper[(b \div 16) + 1] ELSE upper[(b % 16) + 1]]

\* fmt.Sprintf("%x", bytes): two lowercase hex digits per byte.
Hex(bytes) ==
    [i \in 1..(2 * Len(bytes)) |->
        LET b == bytes[(i + 1) \div 2]
        IN  IF i % 2 = 1 THEN HexDigits[(b \div 16) + 1] ELSE HexDigits[(b % 16) + 1]]

\* strings.HasSuffix and strings.TrimSuffix
HasSuffix(s, suffix) ==
    /\ Len(suffix) <= Len(s)
    /\ SubSeq(s, Len(s) - Len(suffix) + 1, Len(s)) = suffix

TrimSuffix(s, suffix) ==
    IF HasSuffix(s, suffix) THEN SubSeq(s, 1, Len(s) - Len(suffix)) ELSE s

\* filepath.Ext: the suffix beginning at the final dot of the final path
\* element, empty when that element has no dot.
Ext(path) ==
    LET seps == {i \in 1..Len(path) : path[i] = "/"}
        from == IF seps = {} THEN 0 ELSE CHOOSE i \in seps : \A j \in seps : j <= i
        dots == {i \in (from + 1)..Len(path) : path[i] = "."}
    IN  IF dots = {} THEN <<>>
        ELSE SubSeq(path, CHOOSE i \in dots : \A j \in dots : j <= i, Len(path))

\* Variant: the output path is derived from the pattern, not from the name.
OutputFilePathOfPattern(filePath) ==
    <<"/", "t", "m", "p", "/", "t", "u", "b", "e", "l", "y", "-", "u", "p", "l", "o",
      "a", "d", ".", "p", "r", "o", "c", "e", "s", "s", "i", "n", "g", ".", "m", "p", "4">>

\* The output path processVideoForFastStart derives from its input path.
OutputFilePath(filePath) ==
    LET ext  == Ext(filePath)
        base == TrimSuffix(filePath, ext)
    IN  base \o <<".", "p", "r", "o", "c", "e", "s", "s", "i", "n", "g">> \o ext

\* os.TempDir() and the pattern handed to os.CreateTemp; the pattern holds
\* no "*", so the random string is appended to it.
TempDir == <<"/", "t", "m", "p">>
TempPattern ==
    <<"t", "u", "b", "e", "l", "y", "-", "u", "p", "l", "o", "a", "d", ".", "m", "p", "4">>

TempName(random) == TempDir \o <<"/">> \o TempPattern \o random

\* The prefix chosen from the aspect ratio.
Prefix(aspectRatio) ==
    IF aspectRatio = "16:9"
    THEN <<"l", "a", "n", "d", "s", "c", "a", "p", "e", "/">>
    ELSE IF aspectRatio = "9:16"
    THEN <<"p", "o", "r", "t", "r", "a", "i", "t", "/">>
    ELSE <<"o", "t", "h", "e", "r", "/">>

\* key := prefix + fmt.Sprintf("%x.mp4", randomHex)
Key(prefix, randomHex) == prefix \o Hex(randomHex) \o <<".", "m", "p", "4">>

\* videoURL := fmt.Sprintf("https://%s/%s", cfg.s3CfDistribution, key)
VideoURL(distribution, key) ==
    <<"h", "t", "t", "p", "s", ":", "/", "/">> \o distribution \o <<"/">> \o key

\* mime.ParseMediaType, as far as the media type goes: the text before the
\* first ";" with surrounding blanks dropped and letters lowered; an error
\* when it is not "token" or "token/token".
LowerCase(c) ==
    CASE c = "V" -> "v" [] c = "I" -> "i" [] c = "D" -> "d" [] c = "E" -> "e"
      [] c = "O" -> "o" [] c = "M" -> "m" [] c = "P" -> "p" [] c = "G" -> "g"
      [] c = "F" -> "f" [] c = "A" -> "a" [] c = "N" -> "n" [] c = "J" -> "j"
      [] OTHER -> c

IsTokenChar(c) == c \notin {" ", "/", ";", "=", ","}

ParseMediaType(header) ==
    LET semis == {i \in 1..Len(header) : header[i] = ";"}
        cut   == IF semis = {} THEN Len(header) ELSE MinOf(semis) - 1
        raw   == SubSeq(header, 1, cut)
        inner == {i \in 1..Len(raw) : raw[i] # " "}
        trim  == IF inner = {} THEN <<>>
                 ELSE SubSeq(raw, MinOf(inner), CHOOSE i \in inner : \A j \in inner : j <= i)
        low   == [i \in 1..Len(trim) |-> LowerCase(trim[i])]
        slash == {i \in 1..Len(low) : low[i] = "/"}
        ok    == /\ Len(low) > 0
                 /\ IsTokenChar(low[1])
                 /\ \A i \in 1..Len(low) : IsTokenChar(low[i]) \/ low[i] = "/"
                 /\ Cardinality(slash) <= 1
                 /\ slash # {} => MinOf(slash) < Len(low)
    IN  IF ok THEN [mediatype |-> low, err |-> FALSE]
        ELSE [mediatype |-> <<>>, err |-> TRUE]

\* The one accepted media type.
VideoMP4 == <<"v", "i", "d", "e", "o", "/", "m", "p", "4">>

\* Variant: any video type passes.
AcceptedAnyVideo(contentType) ==
    /\ Len(contentType) >= 6
    /\ SubSeq(contentType, 1, 6) = <<"v", "i", "d", "e", "o", "/">>

\* The test of the parsed content type.
AcceptedContentType(contentType) == contentType = VideoMP4

\* ------------------------------------------------------------------------
\* The handler: state
\* ------------------------------------------------------------------------
\* Largest number of random name suffixes os.CreateTemp draws from.
MaxNames == 2

\* Length of the random part of the key, in bytes.
RandLen == 16

\* The requests in flight, the users and the one stored video record.
Requests == {"r1", "r2"}
Users == {"u1", "u2"}
StoredVideo == "v1"
UnknownVideo == "v9"

\* cfg.s3CfDistribution
Distribution == <<"d", "1", ".", "c", "f">>

\* The random suffixes of temporary file names.
RandomNames == {<<Digits[i + 1]>> : i \in 1..MaxNames}

\* What rand.Read may fill the 16 bytes with.
RandomReads ==
    { [i \in 1..RandLen |-> (i * 47) % 256],
      [i \in 1..RandLen |-> 255 - i] }

\* The declared content types of the file part.
ContentTypeHeaders ==
    { <<"v", "i", "d", "e", "o", "/", "m", "p", "4">>,
      <<"V", "i", "d", "e", "o", "/", "M", "P", "4">>,
      <<"v", "i", "d", "e", "o", "/", "m", "p", "4", ";", " ", "x", "=", "1">>,
      <<"i", "m", "a", "g", "e", "/", "g", "i", "f">>,
      <<"v", "i", "d", "e", "o", "/", "m", "p", "e", "g">>,
      <<"v", "i", "d", "e", "o">>,
      <<"v", "i", "d", "e", "o", "/">>,
      <<>> }

\* What the probe tool may report for a staged file.
ProbeOutputs ==
    { ProbeOutput(1, FALSE, <<>>),
      ProbeOutput(0, FALSE, <<>>),
      ProbeOutput(0, TRUE, <<>>),
      ProbeOutput(0, TRUE, <<Stream(1280, 720)>>),
      ProbeOutput(0, TRUE, <<Stream(720, 1280), Stream(1280, 720)>>),
      ProbeOutput(0, TRUE, <<Stream(640, 480)>>),
      ProbeOutput(0, TRUE, <<Stream(0, 0)>>) }

ProbeResults == {getVideoAspectRatio(out) : out \in ProbeOutputs}

VARIABLES
    req,        \* per request: position, local variables, response, call log
    fs,         \* the files of the temporary directory, each with its creator
    handles,    \* the open file handles, each with its holder
    objects,    \* the objects of the bucket
    db,         \* the video records
    pOut,       \* classification alone: the probe output
    pResult,    \* classification alone: what getVideoAspectRatio returned
    th,         \* thumbnail upload, per request: position, locals, call log
    assets,     \* thumbnail upload: the files under the assets root
    thumbnailURL \* thumbnail upload: the ThumbnailURL field of the records

vars == <<req, fs, handles, objects, db, pOut, pResult, th, assets, thumbnailURL>>
hvars == <<req, fs, handles, objects, db>>
pvars == <<pOut, pResult>>
tvars == <<th, assets, thumbnailURL>>

\* The thumbnail requests in flight and the handler variants.
ThumbRequests == {"t1", "t2"}
Variants == {"part_000", "part_001"}

\* The locals of handlerUploadThumbnail on entry.
ThumbInitialLocals(variant) ==
    [ variant |-> variant, pc |-> "uuid.Parse", userID |-> "", videoID |-> "",
      header |-> <<>>, mediaType |-> <<>>, encoded |-> <<>>, filePath |-> <<>>,
      url |-> <<>>,
      status |-> 0, defers |-> <<>>, calls |-> <<>> ]

\* No thumbnail request is in flight and nothing is stored.
NoThumbnails ==
    /\ th = [t \in ThumbRequests |-> ThumbInitialLocals("part_000")]
    /\ assets = {}
    /\ thumbnailURL = [v \in {StoredVideo} |-> <<>>]

\* Variant: the staged file is uploaded before the remux step.
PipelinePutBeforeRemux ==
    << "GetBearerToken", "ValidateJWT", "uuid.Parse", "GetVideo",
       "ParseMultipartForm", "FormFile", "ParseMediaType", "CreateTemp",
       "io.Copy", "Seek", "getVideoAspectRatio", "rand.Read",
       "PutObject", "processVideoForFastStart", "os.Open", "UpdateVideoURL",
       "GetUpdatedVideo" >>

\* Variant: the key is derived after the remux step.
PipelineKeyAfterRemux ==
    << "GetBearerToken", "ValidateJWT", "uuid.Parse", "GetVideo",
       "ParseMultipartForm", "FormFile", "ParseMediaType", "CreateTemp",
       "io.Copy", "Seek", "getVideoAspectRatio",
       "processVideoForFastStart", "rand.Read", "os.Open", "PutObject",
       "UpdateVideoURL", "GetUpdatedVideo" >>

\* Variant: the record is updated before the object is put.
PipelineRecordBeforePut ==
    << "GetBearerToken", "ValidateJWT", "uuid.Parse", "GetVideo",
       "ParseMultipartForm", "FormFile", "ParseMediaType", "CreateTemp",
       "io.Copy", "Seek", "getVideoAspectRatio", "rand.Read",
       "processVideoForFastStart", "os.Open", "UpdateVideoURL", "PutObject",
       "GetUpdatedVideo" >>

\* The steps of handlerUploadVideo in the order of the code; a step that
\* succeeds hands over to the next one, the last one responds 200.
Pipeline ==
    << "GetBearerToken", "ValidateJWT", "uuid.Parse", "GetVideo",
       "ParseMultipartForm", "FormFile", "ParseMediaType", "CreateTemp",
       "io.Copy", "Seek", "getVideoAspectRatio", "rand.Read",
       "processVideoForFastStart", "os.Open", "PutObject", "UpdateVideoURL",
       "GetUpdatedVideo" >>

IndexOf(step) == CHOOSE i \in 1..Len(Pipeline) : Pipeline[i] = step

File(path, owner) == [path |-> path, owner |-> owner]
Exists(path) == \E f \in fs : f.path = path

Call(op, ok) == [op |-> op, ok |-> ok]
Deferred(op, path) == [op |-> op, path |-> path]

InitialLocals ==
    [ pc |-> Pipeline[1], userID |-> "", videoID |-> "", contentType |-> <<>>,
      tempFile |-> <<>>, aspectRatio |-> "", key |-> <<>>,
      processedFilePath |-> <<>>, status |-> 0, defers |-> <<>>, calls |-> <<>> ]

HandlerInit ==
    /\ req = [r \in Requests |-> InitialLocals]
    /\ fs = {}
    /\ handles = {}
    /\ objects = {}
    /\ db = [v \in {StoredVideo} |-> [UserID |-> "u1", VideoURL |-> <<>>]]

\* The function returns: with deferred calls pending it runs them first.
Returning(l) == [l EXCEPT !.pc = IF l.defers = <<>> THEN "done" ELSE "return"]

\* Variant: the error response is written but the return is missing.
AbortWithoutReturn(l, op, code) ==
    LET i == CHOOSE j \in 1..Len(Pipeline) : Pipeline[j] = l.pc
        m == [l EXCEPT !.status = code,
                       !.calls = l.calls \o <<Call(op, FALSE), Call("WriteHeader", TRUE)>>]
    IN  IF i < Len(Pipeline) THEN [m EXCEPT !.pc = Pipeline[i + 1]]
        ELSE [m EXCEPT !.pc = IF m.defers = <<>> THEN "done" ELSE "return"]

\* A step failed: respond with the status (respondWithError or http.Error,
\* logged as the WriteHeader both end in) and return.
Abort(l, op, code) ==
    Returning([l EXCEPT !.status = code,
                        !.calls = l.calls \o <<Call(op, FALSE), Call("WriteHeader", TRUE)>>])

\* Variant: the 200 response is written a second time on the way out.
ProceedRespondingTwice(l, op) ==
    LET i == IndexOf(l.pc)
    IN  IF i < Len(Pipeline)
        THEN [l EXCEPT !.pc = Pipeline[i + 1], !.calls = Append(l.calls, Call(op, TRUE))]
        ELSE Returning([l EXCEPT !.status = 200,
                 !.calls = l.calls \o <<Call(op, TRUE), Call("WriteHeader", TRUE),
                                        Call("WriteHeader", TRUE)>>])

\* A step succeeded: go on with the next step; past the last step,
\* respondWithJSON(w, http.StatusOK, video) and return.
Proceed(l, op) ==
    LET i == IndexOf(l.pc)
    IN  IF i < Len(Pipeline)
        THEN [l EXCEPT !.pc = Pipeline[i + 1], !.calls = Append(l.calls, Call(op, TRUE))]
        ELSE Returning([l EXCEPT !.status = 200,
                                 !.calls = l.calls \o <<Call(op, TRUE), Call("WriteHeader", TRUE)>>])

At(r, step) == req[r].pc = step
Set(r, l) == req' = [req EXCEPT ![r] = l]

\* ------------------------------------------------------------------------
\* The handler: one action per step
\* ------------------------------------------------------------------------
\* auth.GetBearerToken: the header carries a token or not.
GetBearerToken(r) ==
    /\ At(r, "GetBearerToken")
    /\ \/ Set(r, Proceed(req[r], "GetBearerToken"))
       \/ Set(r, Abort(req[r], "GetBearerToken", 401))
    /\ UNCHANGED <<fs, handles, objects, db, pvars, tvars>>

\* auth.ValidateJWT: the token names a user or is rejected.
ValidateJWT(r) ==
    /\ At(r, "ValidateJWT")
    /\ \/ \E u \in Users : Set(r, Proceed([req[r] EXCEPT !.userID = u], "ValidateJWT"))
       \/ Set(r, Abort(req[r], "ValidateJWT", 401))
    /\ UNCHANGED <<fs, handles, objects, db, pvars, tvars>>

\* uuid.Parse of the path value.
ParseVideoID(r) ==
    /\ At(r, "uuid.Parse")
    /\ \/ \E v \in {StoredVideo, UnknownVideo} :
            Set(r, Proceed([req[r] EXCEPT !.videoID = v], "uuid.Parse"))
       \/ Set(r, Abort(req[r], "uuid.Parse", 400))
    /\ UNCHANGED <<fs, handles, objects, db, pvars, tvars>>

\* Variant: the ownership test is missing.
IsOwnerUnchecked(video, userID) == TRUE

\* The record store, get-by-id(id) -> record | not-found: whether the read
\* can succeed, and the record it then returns.
HasVideo(id) == id \in DOMAIN db
VideoOf(id) == db[id]

\* The record store's update of the location of an existing record.
WithVideoURL(id, url) == [db EXCEPT ![id].VideoURL = url]

\* The ownership test on the record read.
IsOwner(video, userID) == video.UserID = userID

\* cfg.db.GetVideo and the ownership test.
GetVideo(r) ==
    /\ At(r, "GetVideo")
    /\ \/ /\ HasVideo(req[r].videoID)
          /\ LET l == [req[r] EXCEPT !.calls = Append(@, Call("GetVideo", TRUE))]
             IN  IF IsOwner(VideoOf(req[r].videoID), req[r].userID)
                 THEN Set(r, Proceed(l, "owner check"))
                 ELSE Set(r, Abort(l, "owner check", 401))
       \/ Set(r, Abort(req[r], "GetVideo", 404))
    /\ UNCHANGED <<fs, handles, objects, db, pvars, tvars>>

\* http.MaxBytesReader and r.ParseMultipartForm: the body holds at most
\* 1 GiB and the form parts stay in memory.
ParseMultipartForm(r) ==
    /\ At(r, "ParseMultipartForm")
    /\ \/ Set(r, Proceed(req[r], "ParseMultipartForm"))
       \/ Set(r, Abort(req[r], "ParseMultipartForm", 400))
    /\ UNCHANGED <<fs, handles, objects, db, pvars, tvars>>

\* r.FormFile("video") and defer file.Close()
FormFile(r) ==
    /\ At(r, "FormFile")
    /\ \/ Set(r, Proceed([req[r] EXCEPT
                !.defers = Append(@, Deferred("file.Close", <<>>))], "FormFile"))
       \/ Set(r, Abort(req[r], "FormFile", 400))
    /\ UNCHANGED <<fs, handles, objects, db, pvars, tvars>>

\* mime.ParseMediaType of the part's Content-Type and the MP4 test.
CheckContentType(r) ==
    /\ At(r, "ParseMediaType")
    /\ \E header \in ContentTypeHeaders :
         LET parsed == ParseMediaType(header)
             l      == [req[r] EXCEPT !.contentType = parsed.mediatype]
             m      == [l EXCEPT !.calls = Append(@, Call("ParseMediaType", TRUE))]
         IN  IF parsed.err THEN Set(r, Abort(l, "ParseMediaType", 400))
             ELSE IF AcceptedContentType(parsed.mediatype)
             THEN Set(r, Proceed(m, "content type check"))
             ELSE Set(r, Abort(m, "content type check", 400))
    /\ UNCHANGED <<fs, handles, objects, db, pvars, tvars>>

\* The names os.CreateTemp may return: names of no existing file.
FreeNames == {n \in {TempName(x) : x \in RandomNames} : ~Exists(n)}

\* Variant: the two defer statements in the opposite order.
StagedCleanupCloseLast(name) ==
    <<Deferred("tempFile.Close", name), Deferred("os.Remove tempFile", name)>>

\* defer os.Remove(tempFile.Name()) and defer tempFile.Close(), in the order
\* they are deferred.
StagedCleanup(name) ==
    <<Deferred("os.Remove tempFile", name), Deferred("tempFile.Close", name)>>

\* defer os.Remove(processedFilePath) and defer processedFile.Close(), in the
\* order they are deferred.
ProcessedCleanup(path) ==
    <<Deferred("os.Remove processedFilePath", path), Deferred("processedFile.Close", path)>>

\* os.CreateTemp, then defer os.Remove(tempFile.Name()) and
\* defer tempFile.Close().
CreateTemp(r) ==
    /\ At(r, "CreateTemp")
    /\ \/ \E name \in FreeNames :
            /\ fs' = fs \cup {File(name, r)}
            /\ handles' = handles \cup {File(name, r)}
            /\ Set(r, Proceed([req[r] EXCEPT
                    !.tempFile = name,
                    !.defers = @ \o StagedCleanup(name)], "CreateTemp"))
       \/ /\ Set(r, Abort(req[r], "CreateTemp", 500))
          /\ UNCHANGED <<fs, handles>>
    /\ UNCHANGED <<objects, db, pvars, tvars>>

\* io.Copy(tempFile, file)
Copy(r) ==
    /\ At(r, "io.Copy")
    /\ \/ Set(r, Proceed(req[r], "io.Copy"))
       \/ Set(r, Abort(req[r], "io.Copy", 500))
    /\ UNCHANGED <<fs, handles, objects, db, pvars, tvars>>

\* tempFile.Seek(0, io.SeekStart)
Seek(r) ==
    /\ At(r, "Seek")
    /\ \/ Set(r, Proceed(req[r], "Seek"))
       \/ Set(r, Abort(req[r], "Seek", 500))
    /\ UNCHANGED <<fs, handles, objects, db, pvars, tvars>>

\* getVideoAspectRatio(tempFile.Name()): the probe tool fails on a file
\* that does not exist.
Inspect(r) ==
    /\ At(r, "getVideoAspectRatio")
    /\ \E res \in ProbeResults :
         IF res.err \/ ~Exists(req[r].tempFile)
         THEN Set(r, Abort(req[r], "getVideoAspectRatio", 500))
         ELSE Set(r, Proceed([req[r] EXCEPT !.aspectRatio = res.ratio],
                             "getVideoAspectRatio"))
    /\ UNCHANGED <<fs, handles, objects, db, pvars, tvars>>

\* The prefix, rand.Read(randomHex) and the key.
DeriveKey(r) ==
    /\ At(r, "rand.Read")
    /\ \/ \E bytes \in RandomReads :
            Set(r, Proceed([req[r] EXCEPT
                !.key = Key(Prefix(req[r].aspectRatio), bytes)], "rand.Read"))
       \/ Set(r, Abort(req[r], "rand.Read", 500))
    /\ UNCHANGED <<fs, handles, objects, db, pvars, tvars>>

\* processVideoForFastStart(tempFile.Name()): the remux tool writes the
\* derived output path. When it exits zero the output file is there; when
\* it exits non-zero it may have left a partial output file or none.
processVideoForFastStart(r) ==
    LET input   == req[r].tempFile
        output  == OutputFilePath(input)
        written == {f \in fs : f.path # output} \cup {File(output, r)}
    IN  /\ At(r, "processVideoForFastStart")
        /\ \/ /\ Exists(input)
              /\ fs' = written
              /\ Set(r, Proceed([req[r] EXCEPT !.processedFilePath = output],
                                "processVideoForFastStart"))
           \/ /\ fs' \in {fs, written}
              /\ Set(r, Abort(req[r], "processVideoForFastStart", 500))
        /\ UNCHANGED <<handles, objects, db, pvars, tvars>>

\* os.Open(processedFilePath), then defer os.Remove(processedFilePath) and
\* defer processedFile.Close().
OpenProcessed(r) ==
    LET path == req[r].processedFilePath
    IN  /\ At(r, "os.Open")
        /\ \/ /\ Exists(path)
              /\ handles' = handles \cup {File(path, r)}
              /\ Set(r, Proceed([req[r] EXCEPT
                      !.defers = @ \o ProcessedCleanup(path)], "os.Open"))
           \/ /\ Set(r, Abort(req[r], "os.Open", 500))
              /\ UNCHANGED handles
        /\ UNCHANGED <<fs, objects, db, pvars, tvars>>

\* An object of the bucket: its key and the file its body was read from.
Object(key, body) == [key |-> key, body |-> body]

\* cfg.s3Client.PutObject with Key: key and Body: processedFile; a failed
\* put leaves the bucket as it was.
PutObject(r) ==
    /\ At(r, "PutObject")
    /\ \/ /\ objects' = {o \in objects : o.key # req[r].key}
                           \cup {Object(req[r].key, req[r].processedFilePath)}
          /\ Set(r, Proceed(req[r], "PutObject"))
       \/ /\ Set(r, Abort(req[r], "PutObject", 500))
          /\ UNCHANGED objects
    /\ UNCHANGED <<fs, handles, db, pvars, tvars>>

\* Variant: a failed record update is compensated by deleting the object.
UpdateVideoURLCompensating(r) ==
    /\ req[r].pc = "UpdateVideoURL"
    /\ \/ /\ HasVideo(req[r].videoID)
          /\ db' = WithVideoURL(req[r].videoID, VideoURL(Distribution, req[r].key))
          /\ req' = [req EXCEPT ![r] = Proceed(req[r], "UpdateVideoURL")]
          /\ UNCHANGED objects
       \/ /\ req' = [req EXCEPT ![r] = Abort(req[r], "UpdateVideoURL", 500)]
          /\ objects' = {o \in objects : o.key # req[r].key}
          /\ UNCHANGED db
    /\ UNCHANGED <<fs, handles, pvars, tvars>>

\* cfg.db.UpdateVideoURL(uuid, videoURL)
UpdateVideoURL(r) ==
    /\ At(r, "UpdateVideoURL")
    /\ \/ /\ HasVideo(req[r].videoID)
          /\ db' = WithVideoURL(req[r].videoID, VideoURL(Distribution, req[r].key))
          /\ Set(r, Proceed(req[r], "UpdateVideoURL"))
       \/ /\ Set(r, Abort(req[r], "UpdateVideoURL", 500))
          /\ UNCHANGED db
    /\ UNCHANGED <<fs, handles, objects, pvars, tvars>>

\* The second cfg.db.GetVideo(uuid) and respondWithJSON.
GetUpdatedVideo(r) ==
    /\ At(r, "GetUpdatedVideo")
    /\ \/ /\ HasVideo(req[r].videoID)
          /\ Set(r, Proceed(req[r], "GetVideo"))
       \/ Set(r, Abort(req[r], "GetVideo", 500))
    /\ UNCHANGED <<fs, handles, objects, db, pvars, tvars>>

\* The function returns: the deferred calls run last in, first out.
RunDeferred(r) ==
    LET l    == req[r]
        d    == l.defers[Len(l.defers)]
        rest == SubSeq(l.defers, 1, Len(l.defers) - 1)
    IN  /\ At(r, "return")
        /\ l.defers # <<>>
        /\ fs' = IF d.op \in {"os.Remove tempFile", "os.Remove processedFilePath"}
                 THEN {f \in fs : f.path # d.path} ELSE fs
        /\ handles' = IF d.op \in {"tempFile.Close", "processedFile.Close"}
                      THEN handles \ {File(d.path, r)} ELSE handles
        /\ Set(r, Returning([l EXCEPT !.defers = rest,
                                      !.calls = Append(@, Call(d.op, TRUE))]))
        /\ UNCHANGED <<objects, db, pvars, tvars>>

Init ==
    /\ HandlerInit
    /\ pOut = ProbeOutput(0, TRUE, <<>>)
    /\ pResult = NoResult
    /\ NoThumbnails

Next ==
    \E r \in Requests :
        \/ GetBearerToken(r)
        \/ ValidateJWT(r)
        \/ ParseVideoID(r)
        \/ GetVideo(r)
        \/ ParseMultipartForm(r)
        \/ FormFile(r)
        \/ CheckContentType(r)
        \/ CreateTemp(r)
        \/ Copy(r)
        \/ Seek(r)
        \/ Inspect(r)
        \/ DeriveKey(r)
        \/ processVideoForFastStart(r)
        \/ OpenProcessed(r)
        \/ PutObject(r)
        \/ UpdateVideoURL(r)
        \/ GetUpdatedVideo(r)
        \/ RunDeferred(r)

Spec == Init /\ [][Next]_vars

\* The steps of one invocation.
handlerUploadVideo(r) ==
    \/ GetBearerToken(r) \/ ValidateJWT(r) \/ ParseVideoID(r) \/ GetVideo(r)
    \/ ParseMultipartForm(r) \/ FormFile(r) \/ CheckContentType(r)
    \/ CreateTemp(r) \/ Copy(r) \/ Seek(r) \/ Inspect(r) \/ DeriveKey(r)
    \/ processVideoForFastStart(r) \/ OpenProcessed(r) \/ PutObject(r)
    \/ UpdateVideoURL(r) \/ GetUpdatedVideo(r) \/ RunDeferred(r)

\* Termination is followed for one invocation: the other request has been
\* answered 401 for want of a token, a state Spec reaches in one step.
FairInit ==
    /\ req = [r \in Requests |->
                IF r = "r1" THEN InitialLocals
                ELSE Abort(InitialLocals, "GetBearerToken", 401)]
    /\ fs = {}
    /\ handles = {}
    /\ objects = {}
    /\ db = [v \in {StoredVideo} |-> [UserID |-> "u1", VideoURL |-> <<>>]]
    /\ pOut = ProbeOutput(0, TRUE, <<>>)
    /\ pResult = NoResult
    /\ NoThumbnails

\* Every blocking call returns: an invocation that can take a step takes one.
FairSpec ==
    /\ FairInit
    /\ [][Next]_vars
    /\ \A r \in Requests : WF_vars(handlerUploadVideo(r))

\* ------------------------------------------------------------------------
\* Specification of the classification alone: the probe tool reports some
\* output and getVideoAspectRatio turns it into a result.
\* ------------------------------------------------------------------------
\* Geometries at and next to the tolerance edges 16/9 +- 1/10 and
\* 9/16 +- 1/10, and common frame sizes.
EdgeGeometries ==
    { <<169, 90>>, <<151, 90>>, <<53, 80>>, <<37, 80>>,
      <<170, 90>>, <<150, 90>>, <<152, 90>>, <<168, 90>>,
      <<1280, 720>>, <<1920, 1080>>, <<720, 1280>>, <<640, 480>>,
      <<302, 180>>, <<604, 360>> }

Geometries == ((0..MaxW) \X (0..MaxH)) \cup EdgeGeometries

ProbeInit ==
    /\ HandlerInit
    /\ NoThumbnails
    /\ pResult = NoResult
    /\ pOut \in {ProbeOutput(1, FALSE, <<>>), ProbeOutput(1, TRUE, <<Stream(16, 9)>>),
                 ProbeOutput(0, FALSE, <<>>), ProbeOutput(0, TRUE, <<>>)}
               \cup {ProbeOutput(0, TRUE, <<Stream(g[1], g[2])>>) : g \in Geometries}
               \cup {ProbeOutput(0, TRUE, <<Stream(g[1], g[2]), Stream(16, 9)>>) :
                        g \in EdgeGeometries}

ProbeRun ==
    /\ pResult = NoResult
    /\ pResult' = getVideoAspectRatio(pOut)
    /\ UNCHANGED <<pOut, hvars, tvars>>

ProbeNext == ProbeRun

ProbeSpec == ProbeInit /\ [][ProbeNext]_vars

\* ------------------------------------------------------------------------
\* The thumbnail upload: handlerUploadThumbnail in its two variants, the one
\* storing a file under the assets root and the one storing a data URL.
\* ------------------------------------------------------------------------
\* The base64 alphabets: the first 62 characters, then "+/" or "-_".
Base64Letters ==
    << "A", "B", "C", "D", "E", "F", "G", "H", "I", "J", "K", "L", "M",
       "N", "O", "P", "Q", "R", "S", "T", "U", "V", "W", "X", "Y", "Z",
       "a", "b", "c", "d", "e", "f", "g", "h", "i", "j", "k", "l", "m",
       "n", "o", "p", "q", "r", "s", "t", "u", "v", "w", "x", "y", "z",
       "0", "1", "2", "3", "4", "5", "6", "7", "8", "9" >>
StdAlphabet == Base64Letters \o <<"+", "/">>
URLAlphabet == Base64Letters \o <<"-", "_">>

\* The six-bit groups of the bytes, the last one filled up with zero bits,
\* each written with its character of the alphabet.
Base64Chars(bytes, alphabet) ==
    LET byte(j)  == IF j <= Len(bytes) THEN bytes[j] ELSE 0
        count    == (8 * Len(bytes) + 5) \div 6
        group(k) == LET bit == 6 * (k - 1)
                        i   == bit \div 8 + 1
                        off == bit % 8
                    IN  ((byte(i) * 256 + byte(i + 1)) \div (2 ^ (10 - off))) % 64
    IN  [k \in 1..count |-> alphabet[group(k) + 1]]

\* base64.StdEncoding.EncodeToString: padded with "=" to a multiple of four.
StdEncoding(bytes) ==
    LET chars == Base64Chars(bytes, StdAlphabet)
    IN  chars \o [k \in 1..((4 - (Len(chars) % 4)) % 4) |-> "="]

\* base64.RawURLEncoding.EncodeToString: URL alphabet, no padding.
RawURLEncoding(bytes) == Base64Chars(bytes, URLAlphabet)

\* cfg.assetsRoot and cfg.port
AssetsRoot == <<"a", "s", "s", "e", "t", "s">>
Port == <<"8", "0", "9", "1">>

\* parts := strings.Split(mediaType, "/"); extension := parts[1]
Extension(mediaType) ==
    LET slash == {i \in 1..Len(mediaType) : mediaType[i] = "/"}
        first == MinOf(slash)
        rest  == {i \in slash : i > first}
        stop  == IF rest = {} THEN Len(mediaType) ELSE MinOf(rest) - 1
    IN  SubSeq(mediaType, first + 1, stop)

\* fmt.Sprintf("%s.%s", encoded, extension)
AssetName(encoded, extension) == encoded \o <<".">> \o extension

\* filepath.Join(cfg.assetsRoot, name)
AssetPath(name) == AssetsRoot \o <<"/">> \o name

\* fmt.Sprintf("http://localhost:%s/assets/%s.%s", cfg.port, encoded, extension)
AssetURL(encoded, extension) ==
    <<"h", "t", "t", "p", ":", "/", "/", "l", "o", "c", "a", "l", "h", "o", "s", "t", ":">>
        \o Port \o <<"/", "a", "s", "s", "e", "t", "s", "/">>
        \o AssetName(encoded, extension)

\* fmt.Sprintf("data:%s;base64,%s", mediaType, base64str)
DataURL(mediaType, base64str) ==
    <<"d", "a", "t", "a", ":">> \o mediaType
        \o <<";", "b", "a", "s", "e", "6", "4", ",">> \o base64str

\* The accepted media types of a thumbnail.
ImageJPEG == <<"i", "m", "a", "g", "e", "/", "j", "p", "e", "g">>
ImagePNG == <<"i", "m", "a", "g", "e", "/", "p", "n", "g">>
AcceptedImageType(mediaType) == ~(mediaType # ImageJPEG /\ mediaType # ImagePNG)

\* Number of random bytes of an asset name.
AssetRandLen == 32

\* What the 32 bytes hold after rand.Read, whose result is not looked at.
AssetRandomReads ==
    { [i \in 1..AssetRandLen |-> 0],
      [i \in 1..AssetRandLen |-> (i * 83) % 256] }

\* The declared content types of the thumbnail part.
ThumbnailHeaders ==
    { ImageJPEG, ImagePNG,
      <<"I", "m", "a", "g", "e", "/", "P", "N", "G">>,
      <<"i", "m", "a", "g", "e", "/", "g", "i", "f">>,
      <<"i", "m", "a", "g", "e", "/">>,
      <<>> }

\* The bytes of the thumbnail part.
ThumbnailBodies == { <<>>, <<255, 216>>, <<137, 80, 78, 71>> }

\* The steps of handlerUploadThumbnail in the order of the code.
ThumbPipeline(variant) ==
    IF variant = "part_000"
    THEN << "uuid.Parse", "GetBearerToken", "ValidateJWT", "ParseMultipartForm",
            "FormFile", "ParseMediaType", "rand.Read", "MkdirAll", "os.Create",
            "io.Copy", "GetVideo", "UpdateVideo" >>
    ELSE << "uuid.Parse", "GetBearerToken", "ValidateJWT", "ParseMultipartForm",
            "FormFile", "io.ReadAll", "GetVideo", "UpdateVideo" >>

\* The function returns: the deferred calls run, the last deferred first.
ThumbReturning(l) ==
    [l EXCEPT !.pc = "done",
              !.defers = <<>>,
              !.calls = @ \o [i \in 1..Len(l.defers) |->
                                Call(l.defers[Len(l.defers) + 1 - i], TRUE)]]

\* respondWithError(w, code, ...) and return
ThumbAbort(l, op, code) ==
    ThumbReturning([l EXCEPT !.status = code,
                             !.calls = @ \o <<Call(op, FALSE), Call("WriteHeader", TRUE)>>])

\* The step succeeded: on to the next one; past the last one,
\* respondWithJSON(w, http.StatusOK, videoMetaData) and return.
ThumbProceed(l, op) ==
    LET steps == ThumbPipeline(l.variant)
        i     == CHOOSE j \in 1..Len(steps) : steps[j] = l.pc
    IN  IF i < Len(steps)
        THEN [l EXCEPT !.pc = steps[i + 1], !.calls = Append(@, Call(op, TRUE))]
        ELSE ThumbReturning([l EXCEPT !.status = 200,
                  !.calls = @ \o <<Call(op, TRUE), Call("WriteHeader", TRUE)>>])

ThumbAt(t, step) == th[t].pc = step
ThumbSet(t, l) == th' = [th EXCEPT ![t] = l]

\* A file under the assets root, with the request that created it.
AssetFile(path, body, owner) == [path |-> path, body |-> body, owner |-> owner]

\* The record store's update of the thumbnail URL of an existing record.
WithThumbnailURL(id, url) == [thumbnailURL EXCEPT ![id] = url]

\* uuid.Parse(r.PathValue("videoID"))
ThumbParseVideoID(t) ==
    /\ ThumbAt(t, "uuid.Parse")
    /\ \/ \E id \in {StoredVideo, UnknownVideo} :
            ThumbSet(t, ThumbProceed([th[t] EXCEPT !.videoID = id], "uuid.Parse"))
       \/ ThumbSet(t, ThumbAbort(th[t], "uuid.Parse", 400))
    /\ UNCHANGED <<assets, thumbnailURL, hvars, pvars>>

\* auth.GetBearerToken(r.Header)
ThumbGetBearerToken(t) ==
    /\ ThumbAt(t, "GetBearerToken")
    /\ \/ ThumbSet(t, ThumbProceed(th[t], "GetBearerToken"))
       \/ ThumbSet(t, ThumbAbort(th[t], "GetBearerToken", 401))
    /\ UNCHANGED <<assets, thumbnailURL, hvars, pvars>>

\* auth.ValidateJWT(token, cfg.jwtSecret)
ThumbValidateJWT(t) ==
    /\ ThumbAt(t, "ValidateJWT")
    /\ \/ \E u \in Users :
            ThumbSet(t, ThumbProceed([th[t] EXCEPT !.userID = u], "ValidateJWT"))
       \/ ThumbSet(t, ThumbAbort(th[t], "ValidateJWT", 401))
    /\ UNCHANGED <<assets, thumbnailURL, hvars, pvars>>

\* r.ParseMultipartForm(maxMemory): its result is dropped, the err tested
\* after it is the nil one of ValidateJWT, so the handler always goes on.
ThumbParseMultipartForm(t) ==
    /\ ThumbAt(t, "ParseMultipartForm")
    /\ \E ok \in BOOLEAN :
         ThumbSet(t, [th[t] EXCEPT !.pc = "FormFile",
                          !.calls = Append(@, Call("ParseMultipartForm", ok))])
    /\ UNCHANGED <<assets, thumbnailURL, hvars, pvars>>

\* r.FormFile("thumbnail"), defer file.Close() and header.Header.Get; a form
\* that did not parse has no file part.
ThumbFormFile(t) ==
    /\ ThumbAt(t, "FormFile")
    /\ \/ /\ th[t].calls[Len(th[t].calls)].ok
          /\ \E header \in ThumbnailHeaders :
               ThumbSet(t, ThumbProceed([th[t] EXCEPT !.header = header,
                              !.defers = Append(@, "file.Close")], "FormFile"))
       \/ ThumbSet(t, ThumbAbort(th[t], "FormFile", 400))
    /\ UNCHANGED <<assets, thumbnailURL, hvars, pvars>>

\* part_000: mime.ParseMediaType of the part's Content-Type and the test
\* for image/jpeg and image/png.
ThumbCheckContentType(t) ==
    /\ ThumbAt(t, "ParseMediaType")
    /\ LET parsed == ParseMediaType(th[t].header)
           l      == [th[t] EXCEPT !.mediaType = parsed.mediatype]
           m      == [l EXCEPT !.calls = Append(@, Call("ParseMediaType", TRUE))]
       IN  IF parsed.err THEN ThumbSet(t, ThumbAbort(l, "ParseMediaType", 400))
           ELSE IF AcceptedImageType(parsed.mediatype)
           THEN ThumbSet(t, ThumbProceed(m, "content type check"))
           ELSE ThumbSet(t, ThumbAbort(m, "content type check", 400))
    /\ UNCHANGED <<assets, thumbnailURL, hvars, pvars>>

\* part_000: the extension, the random name and the path of the file.
ThumbDeriveFilePath(t) ==
    /\ ThumbAt(t, "rand.Read")
    /\ \E randomBytes \in AssetRandomReads :
         LET encoded == RawURLEncoding(randomBytes)
             name    == AssetName(encoded, Extension(th[t].mediaType))
         IN  ThumbSet(t, ThumbProceed([th[t] EXCEPT !.encoded = encoded,
                                          !.filePath = AssetPath(name)], "rand.Read"))
    /\ UNCHANGED <<assets, thumbnailURL, hvars, pvars>>

\* part_000: os.MkdirAll(cfg.assetsRoot, 0755)
ThumbMkdirAll(t) ==
    /\ ThumbAt(t, "MkdirAll")
    /\ \/ ThumbSet(t, ThumbProceed(th[t], "MkdirAll"))
       \/ ThumbSet(t, ThumbAbort(th[t], "MkdirAll", 500))
    /\ UNCHANGED <<assets, thumbnailURL, hvars, pvars>>

\* part_000: os.Create(filePath), which empties a file already there, and
\* defer newFile.Close()
ThumbCreate(t) ==
    /\ ThumbAt(t, "os.Create")
    /\ \/ /\ assets' = {f \in assets : f.path # th[t].filePath}
                          \cup {AssetFile(th[t].filePath, <<>>, t)}
          /\ ThumbSet(t, ThumbProceed([th[t] EXCEPT
                            !.defers = Append(@, "newFile.Close")], "os.Create"))
       \/ /\ ThumbSet(t, ThumbAbort(th[t], "os.Create", 500))
          /\ UNCHANGED assets
    /\ UNCHANGED <<thumbnailURL, hvars, pvars>>

\* part_000: io.Copy(newFile, file); a failed copy leaves what it wrote.
ThumbCopy(t) ==
    /\ ThumbAt(t, "io.Copy")
    /\ \E body \in ThumbnailBodies :
         LET written(n) == {IF f.path = th[t].filePath
                            THEN [f EXCEPT !.body = SubSeq(body, 1, n)] ELSE f : f \in assets}
         IN  \/ /\ assets' = written(Len(body))
                /\ ThumbSet(t, ThumbProceed(th[t], "io.Copy"))
             \/ /\ assets' = written(0)
                /\ ThumbSet(t, ThumbAbort(th[t], "io.Copy", 500))
    /\ UNCHANGED <<thumbnailURL, hvars, pvars>>

\* part_001: io.ReadAll(file), the base64 text and the data URL of the
\* declared content type.
ThumbReadAll(t) ==
    /\ ThumbAt(t, "io.ReadAll")
    /\ \/ \E imageData \in ThumbnailBodies :
            ThumbSet(t, ThumbProceed([th[t] EXCEPT !.mediaType = th[t].header,
                   !.url = DataURL(th[t].header, StdEncoding(imageData))], "io.ReadAll"))
       \/ ThumbSet(t, ThumbAbort(th[t], "io.ReadAll", 400))
    /\ UNCHANGED <<assets, thumbnailURL, hvars, pvars>>

\* cfg.db.GetVideo, the ownership test and, in part_000, the URL of the file.
ThumbGetVideo(t) ==
    /\ ThumbAt(t, "GetVideo")
    /\ \/ /\ HasVideo(th[t].videoID)
          /\ LET l == [th[t] EXCEPT !.calls = Append(@, Call("GetVideo", TRUE))]
                 m == IF l.variant = "part_000"
                      THEN [l EXCEPT !.url = AssetURL(l.encoded, Extension(l.mediaType))]
                      ELSE l
             IN  IF IsOwner(VideoOf(th[t].videoID), th[t].userID)
                 THEN ThumbSet(t, ThumbProceed(m, "owner check"))
                 ELSE ThumbSet(t, ThumbAbort(l, "owner check", 401))
       \/ ThumbSet(t, ThumbAbort(th[t], "GetVideo", 404))
    /\ UNCHANGED <<assets, thumbnailURL, hvars, pvars>>

\* videoMetaData.ThumbnailURL = &url; cfg.db.UpdateVideo(videoMetaData)
ThumbUpdateVideo(t) ==
    /\ ThumbAt(t, "UpdateVideo")
    /\ \/ /\ HasVideo(th[t].videoID)
          /\ thumbnailURL' = WithThumbnailURL(th[t].videoID, th[t].url)
          /\ ThumbSet(t, ThumbProceed(th[t], "UpdateVideo"))
       \/ /\ ThumbSet(t, ThumbAbort(th[t], "UpdateVideo", 500))
          /\ UNCHANGED thumbnailURL
    /\ UNCHANGED <<assets, hvars, pvars>>

\* Every request of a deployment is served by the same variant.
ThumbInit ==
    /\ HandlerInit
    /\ pOut = ProbeOutput(0, TRUE, <<>>)
    /\ pResult = NoResult
    /\ \E variant \in Variants : th = [t \in ThumbRequests |-> ThumbInitialLocals(variant)]
    /\ assets = {}
    /\ thumbnailURL = [v \in {StoredVideo} |-> <<>>]

ThumbNext ==
    \E t \in ThumbRequests :
        \/ ThumbParseVideoID(t)
        \/ ThumbGetBearerToken(t)
        \/ ThumbValidateJWT(t)
        \/ ThumbParseMultipartForm(t)
        \/ ThumbFormFile(t)
        \/ ThumbCheckContentType(t)
        \/ ThumbDeriveFilePath(t)
        \/ ThumbMkdirAll(t)
        \/ ThumbCreate(t)
        \/ ThumbCopy(t)
        \/ ThumbReadAll(t)
        \/ ThumbGetVideo(t)
        \/ ThumbUpdateVideo(t)

ThumbSpec == ThumbInit /\ [][ThumbNext]_vars

\* ------------------------------------------------------------------------
\* Properties
\* ------------------------------------------------------------------------
Ops(r) == [i \in 1..Len(req[r].calls) |-> req[r].calls[i].op]
Called(r, op) == \E i \in 1..Len(req[r].calls) : req[r].calls[i].op = op
Succeeded(r, op) == \E i \in 1..Len(req[r].calls) : req[r].calls[i] = Call(op, TRUE)
FailedAt(r, op) == \E i \in 1..Len(req[r].calls) : req[r].calls[i] = Call(op, FALSE)
Count(r, op) == Cardinality({i \in 1..Len(req[r].calls) : req[r].calls[i].op = op})
Returned(r) == req[r].pc = "done"

\* The files of the temporary directory that request r created.
OwnFiles(r) == {f \in fs : f.owner = r}

\* The step taken appends a call of op by request r to the log.
Invokes(r, op) ==
    /\ Len(req'[r].calls) > Len(req[r].calls)
    /\ req'[r].calls[Len(req[r].calls) + 1].op = op

\* C1: once the handler has returned, on whatever exit path, neither the
\* staged file nor the processed file it created exists.
C1_NoTempFileAfterReturn ==
    \A r \in Requests : Returned(r) => OwnFiles(r) = {}

\* C2: when the remux step fails, the handler does not invoke the transfer,
\* and the partial output at the derived path is gone when it has returned.
C2_RemuxFailureCleansUp ==
    \A r \in Requests :
        (FailedAt(r, "processVideoForFastStart") /\ Returned(r)) =>
            /\ ~Called(r, "PutObject")
            /\ File(OutputFilePath(req[r].tempFile), r) \notin fs

\* C3: PutObject is invoked only from a state in which the staged file
\* exists, the processed file exists and the classification is computed.
C3_TransferNeedsFilesAndClassification ==
    [][\A r \in Requests :
          Invokes(r, "PutObject") =>
              /\ File(req[r].tempFile, r) \in fs
              /\ File(req[r].processedFilePath, r) \in fs
              /\ req[r].processedFilePath # req[r].tempFile
              /\ req[r].aspectRatio \in {"16:9", "9:16", "other"}]_vars

C3_Witness ==
    \E r \in Requests : Succeeded(r, "PutObject") /\ objects # {}

\* The calls that write the response and run the deferred cleanup.
CleanupOps ==
    { "WriteHeader", "file.Close", "tempFile.Close", "os.Remove tempFile",
      "processedFile.Close", "os.Remove processedFilePath" }

\* The external tools, the object-store put and the record update.
ExternalOps ==
    {"getVideoAspectRatio", "processVideoForFastStart", "PutObject", "UpdateVideoURL"}

\* After a failed call only the response and the cleanup follow.
FailFast(r) ==
    \A i, j \in 1..Len(req[r].calls) :
        (i < j /\ ~req[r].calls[i].ok) => req[r].calls[j].op \in CleanupOps

ProbeFailureStops(r) ==
    FailedAt(r, "getVideoAspectRatio") =>
        /\ req[r].status = 500
        /\ ~Called(r, "processVideoForFastStart")
        /\ ~Called(r, "PutObject")

\* C4 (as stated): the first failing step ends the pipeline, no tool or store
\* operation is invoked more than once per request, and a probe failure
\* yields 500 with neither remux nor transfer attempted.
C4_FailFastNothingTwice ==
    \A r \in Requests :
        /\ FailFast(r)
        /\ \A op \in ExternalOps \cup {"GetVideo"} : Count(r, op) <= 1
        /\ ProbeFailureStops(r)

\* C4 (amended): as above, but the record read GetVideo is invoked up to
\* twice, for the ownership test and for the re-read after the update.
C4_FailFastOnlyRecordReadTwice ==
    \A r \in Requests :
        /\ FailFast(r)
        /\ \A op \in ExternalOps : Count(r, op) <= 1
        /\ Count(r, "GetVideo") <= 2
        /\ ProbeFailureStops(r)

C4_Witness ==
    \E r \in Requests : FailedAt(r, "getVideoAspectRatio") /\ Returned(r)

\* The steps that create, read or write anything outside the request.
EffectOps ==
    { "CreateTemp", "io.Copy", "getVideoAspectRatio", "processVideoForFastStart",
      "os.Open", "PutObject", "UpdateVideoURL" }

TouchesNothing(r) ==
    /\ \A op \in EffectOps : ~Called(r, op)
    /\ req[r].tempFile = <<>>
    /\ OwnFiles(r) = {}
    /\ \A h \in handles : h.owner # r

\* C5: a file part whose content type is not video/mp4 is answered with 400
\* and no temporary file, probe, remux, transfer or record update happens.
C5_RejectedTypeTouchesNothing ==
    \A r \in Requests :
        (Called(r, "ParseMediaType") /\ req[r].contentType # VideoMP4) =>
            /\ req[r].status = 400
            /\ TouchesNothing(r)

C5_Witness ==
    \E r \in Requests :
        /\ Returned(r)
        /\ req[r].contentType = <<"i", "m", "a", "g", "e", "/", "g", "i", "f">>

\* C6: a user who does not own the record read is answered with 401 and no
\* temporary file is created, nothing is transferred, no record is updated.
C6_NonOwnerTouchesNothing ==
    \A r \in Requests :
        (Succeeded(r, "GetVideo") /\ db[req[r].videoID].UserID # req[r].userID) =>
            /\ req[r].status = 401
            /\ TouchesNothing(r)

C6_Witness ==
    \E r \in Requests :
        /\ Returned(r)
        /\ Succeeded(r, "GetVideo")
        /\ req[r].userID = "u2"

\* The pipeline state a call of the log leads to ("" when it leads to none).
StateAfter(r, c) ==
    IF ~c.ok THEN "Failed"
    ELSE CASE c.op = "content type check"        -> "Validated"
           [] c.op = "Seek"                      -> "Staged"
           [] c.op = "getVideoAspectRatio"       -> "Inspected"
           [] c.op = "rand.Read"                 -> "Keyed"
           [] c.op = "processVideoForFastStart"  -> "Remuxed"
           [] c.op = "PutObject"                 -> "Transferred"
           [] c.op = "UpdateVideoURL"            -> "Recorded"
           [] c.op = "WriteHeader"               ->
                  IF req[r].status = 200 THEN "Complete" ELSE ""
           [] OTHER                              -> ""

\* The pipeline states request r has been in, in the order it entered them.
StatesVisited(r) ==
    LET after == [i \in 1..Len(req[r].calls) |-> StateAfter(r, req[r].calls[i])]
    IN  <<"Received">> \o SelectSeq(after, LAMBDA x : x # "")

\* visited follows order from its first state on, without repetition, and
\* leaves it only by ending in "Failed".
FollowsOrder(order, visited) ==
    \E n \in 1..Len(order) :
        \/ visited = SubSeq(order, 1, n)
        \/ n < Len(order) /\ visited = Append(SubSeq(order, 1, n), "Failed")

Distance(a, b) == IF a >= b THEN a - b ELSE b - a

ExactClass(w, h) ==
    IF 10 * Distance(9 * w, 16 * h) < 9 * h THEN "16:9"
    ELSE IF 10 * Distance(16 * w, 9 * h) < 16 * h THEN "9:16"
    ELSE "other"

\* C8: for every width w and height h > 0 of the first stream,
\* getVideoAspectRatio returns "16:9" exactly when |w/h - 16/9| < 0.1,
\* "9:16" exactly when |w/h - 9/16| < 0.1, and "other" otherwise.
C8_ClassificationIsExact ==
    (/\ pResult # NoResult
     /\ pOut.exit = 0 /\ pOut.parses /\ Len(pOut.streams) > 0
     /\ pOut.streams[1].Height > 0) =>
        /\ ~pResult.err
        /\ pResult.ratio = ExactClass(pOut.streams[1].Width, pOut.streams[1].Height)

LowerHex == {"0", "1", "2", "3", "4", "5", "6", "7", "8", "9", "a", "b", "c", "d", "e", "f"}

\* key is the prefix, 32 lower-case hex characters and ".mp4".
KeyHasShape(key, prefix) ==
    LET n == Len(prefix)
    IN  /\ Len(key) = n + 36
        /\ SubSeq(key, 1, n) = prefix
        /\ \A i \in (n + 1)..(n + 32) : key[i] \in LowerHex
        /\ SubSeq(key, n + 33, n + 36) = <<".", "m", "p", "4">>

KeyOfRequestHasShape(r) ==
    KeyHasShape(req[r].key,
        CASE req[r].aspectRatio = "16:9" -> <<"l", "a", "n", "d", "s", "c", "a", "p", "e", "/">>
          [] req[r].aspectRatio = "9:16" -> <<"p", "o", "r", "t", "r", "a", "i", "t", "/">>
          [] OTHER                       -> <<"o", "t", "h", "e", "r", "/">>)

LocationOf(key) ==
    <<"h", "t", "t", "p", "s", ":", "/", "/">> \o Distribution \o <<"/">> \o key

\* The step taken appends a successful call of op by request r to the log.
InvokesOk(r, op) ==
    /\ Invokes(r, op)
    /\ req'[r].calls[Len(req[r].calls) + 1].ok

\* C9: on a successful run the key is the classification prefix, 32
\* lower-case hex characters and ".mp4", the object is stored under that
\* key, and the location written to the record is https://<host>/<key>.
C9_KeyObjectAndLocation ==
    /\ [](\A r \in Requests :
            req[r].status = 200 =>
                /\ KeyOfRequestHasShape(r)
                /\ \E o \in objects : o.key = req[r].key)
    /\ [][\A r \in Requests :
            /\ InvokesOk(r, "PutObject") =>
                  Object(req[r].key, req[r].processedFilePath) \in objects'
            /\ InvokesOk(r, "UpdateVideoURL") =>
                  /\ KeyOfRequestHasShape(r)
                  /\ db'[req[r].videoID].VideoURL = LocationOf(req[r].key)]_vars

C9_Witness ==
    \E r \in Requests :
        /\ req[r].status = 200
        /\ req[r].aspectRatio = "16:9"
        /\ db[req[r].videoID].VideoURL = LocationOf(req[r].key)

\* C10: a request writes the record's location only after its own put has
\* succeeded, every location of a record names a stored object, and the
\* set of records never changes.
C10_LocationOnlyAfterTransfer ==
    /\ [](/\ DOMAIN db = {StoredVideo}
          /\ \A v \in DOMAIN db :
                db[v].VideoURL # <<>> =>
                    \E o \in objects : db[v].VideoURL = LocationOf(o.key))
    /\ [][\A r \in Requests :
            (Invokes(r, "UpdateVideoURL") \/ (db' # db /\ req'[r] # req[r])) =>
                Succeeded(r, "PutObject")]_vars

C10_Witness ==
    \E r1, r2 \in Requests :
        /\ r1 # r2
        /\ Succeeded(r1, "UpdateVideoURL")
        /\ Succeeded(r2, "UpdateVideoURL")
        /\ req[r1].key # req[r2].key

\* The first failed call of request r's log.
FirstFailure(r) ==
    LET failed == {i \in 1..Len(req[r].calls) : ~req[r].calls[i].ok}
    IN  req[r].calls[MinOf(failed)].op

HasFailure(r) == \E i \in 1..Len(req[r].calls) : ~req[r].calls[i].ok

\* The status of a failure kind: 400 for validation, 401 for credentials and
\* ownership, 404 for an unknown record, 500 for staging, tool, transfer and
\* record-store failures.
StatusOfFailure(r, op) ==
    CASE op \in {"uuid.Parse", "ParseMultipartForm", "FormFile",
                 "ParseMediaType", "content type check"}      -> 400
      [] op \in {"GetBearerToken", "ValidateJWT", "owner check"} -> 401
      [] op = "GetVideo" -> IF HasVideo(req[r].videoID) THEN 500 ELSE 404
      [] OTHER -> 500

\* C11: every exit responds with the status of its failure kind (400, 401,
\* 404 for an unknown record, 500 for internal, tool and store failures),
\* and with 200 only when every step succeeded.
C11_StatusOfFailureKind ==
    \A r \in Requests :
        req[r].status # 0 =>
            IF HasFailure(r)
            THEN req[r].status = StatusOfFailure(r, FirstFailure(r))
            ELSE /\ req[r].status = 200
                 /\ \A op \in ExternalOps \cup {"CreateTemp", "io.Copy", "Seek",
                                                "rand.Read", "os.Open"} :
                        Succeeded(r, op)

\* The paths request r works on: its staged file and the output path
\* derived from it.
PathsOf(r) ==
    IF req[r].tempFile = <<>> THEN {}
    ELSE {req[r].tempFile, OutputFilePath(req[r].tempFile)}

\* Staging gave the two requests differently named temporary files.
DistinctlyStaged(r1, r2) ==
    /\ r1 # r2
    /\ req[r1].tempFile # <<>>
    /\ req[r2].tempFile # <<>>
    /\ req[r1].tempFile # req[r2].tempFile

\* C12: two invocations whose staged files are named differently work on
\* disjoint paths, every file at a path of one of them is its own, and no
\* step of one creates, overwrites or removes a file of the other.
C12_NoSharedFiles ==
    /\ [](\A r1, r2 \in Requests :
            DistinctlyStaged(r1, r2) =>
                /\ PathsOf(r1) \cap PathsOf(r2) = {}
                /\ \A f \in fs : f.path \in PathsOf(r1) => f.owner = r1
                /\ \A h \in handles : h.path \in PathsOf(r1) => h.owner = r1)
    /\ [][\A r1, r2 \in Requests :
            (DistinctlyStaged(r1, r2)' /\ req'[r1] # req[r1]) =>
                /\ {f \in fs' : f.owner = r2} = {f \in fs : f.owner = r2}
                /\ {h \in handles' : h.owner = r2} = {h \in handles : h.owner = r2}]_vars

C12_Witness ==
    \E r1, r2 \in Requests :
        /\ DistinctlyStaged(r1, r2)
        /\ File(OutputFilePath(req[r1].tempFile), r1) \in fs
        /\ File(OutputFilePath(req[r2].tempFile), r2) \in fs
        /\ File(req[r1].tempFile, r1) \in fs
        /\ File(req[r2].tempFile, r2) \in fs

\* In request r's log every call of second is preceded by a call of first.
Precedes(r, first, second) ==
    \A i \in 1..Len(req[r].calls) :
        req[r].calls[i].op = second =>
            \E j \in 1..(i - 1) : req[r].calls[j].op = first

\* C13: on every exit after the staged file was created its handle is closed
\* first and its removal attempted afterwards, also when an earlier step
\* failed; the same holds for the processed file once it was opened.
C13_CloseBeforeRemove ==
    /\ [](\A r \in Requests :
            /\ Precedes(r, "tempFile.Close", "os.Remove tempFile")
            /\ Precedes(r, "processedFile.Close", "os.Remove processedFilePath")
            /\ (Returned(r) /\ Succeeded(r, "CreateTemp")) =>
                   /\ Count(r, "tempFile.Close") = 1
                   /\ Count(r, "os.Remove tempFile") = 1
            /\ (Returned(r) /\ Succeeded(r, "os.Open")) =>
                   /\ Count(r, "processedFile.Close") = 1
                   /\ Count(r, "os.Remove processedFilePath") = 1)
    /\ [][\A r \in Requests :
            /\ Invokes(r, "os.Remove tempFile") =>
                   File(req[r].tempFile, r) \notin handles
            /\ Invokes(r, "os.Remove processedFilePath") =>
                   File(req[r].processedFilePath, r) \notin handles]_vars

C13_Witness ==
    \E r \in Requests :
        /\ Returned(r)
        /\ FailedAt(r, "PutObject")
        /\ Count(r, "os.Remove tempFile") = 1
        /\ Count(r, "os.Remove processedFilePath") = 1

\* The probe run is over: the result is no longer the zero pair.
ProbeReturned == pResult # NoResult

\* C14: getVideoAspectRatio returns an error exactly when the probe tool
\* exits non-zero, its output does not parse, or it lists no stream;
\* otherwise, a zero width or height included, it returns one of "16:9",
\* "9:16", "other" and no error.
C14_ErrorExactlyOnProbeFailure ==
    ProbeReturned =>
        /\ pResult.err <=> (pOut.exit # 0 \/ ~pOut.parses \/ Len(pOut.streams) = 0)
        /\ pResult.err => pResult.ratio = ""
        /\ ~pResult.err => pResult.ratio \in {"16:9", "9:16", "other"}

C14_Witness ==
    /\ ProbeReturned
    /\ pOut.exit = 0 /\ pOut.parses /\ Len(pOut.streams) > 0
    /\ pOut.streams[1].Height = 0
    /\ pOut.streams[1].Width > 0
    /\ pResult = [ratio |-> "other", err |-> FALSE]

\* C15: when the transfer succeeded and the record update fails, the
\* response is 500, the object stays in the bucket, and no call on the store
\* follows: no step ever takes an object out of the bucket.
C15_NoCompensationAfterFailedUpdate ==
    /\ [](\A r \in Requests :
            FailedAt(r, "UpdateVideoURL") =>
                /\ Succeeded(r, "PutObject")
                /\ req[r].status = 500
                /\ \E o \in objects : o.key = req[r].key
                /\ \A i \in 1..Len(req[r].calls) :
                      req[r].calls[i].op \in {"PutObject", "UpdateVideoURL"} =>
                          \A j \in (i + 1)..Len(req[r].calls) :
                              req[r].calls[j].op # "PutObject")
    /\ [][\A o \in objects : \E n \in objects' : n.key = o.key]_vars

C15_Witness ==
    \E r \in Requests :
        /\ Returned(r)
        /\ FailedAt(r, "UpdateVideoURL")
        /\ Object(req[r].key, req[r].processedFilePath) \in objects

ThumbCalled(t, op) == \E i \in 1..Len(th[t].calls) : th[t].calls[i].op = op
ThumbSucceeded(t, op) == \E i \in 1..Len(th[t].calls) : th[t].calls[i] = Call(op, TRUE)
ThumbFailedAt(t, op) == \E i \in 1..Len(th[t].calls) : th[t].calls[i] = Call(op, FALSE)
ThumbReturned(t) == th[t].pc = "done"

\* The media type the part declares, as mime.ParseMediaType reads it.
DeclaredType(t) == ParseMediaType(th[t].header).mediatype

\* C16: in the file-storing variant a request for an unknown record, or of a
\* user who does not own the record, is answered 404 or 401 before any file
\* is written: it has created no file under the assets root.
C16_NoFileBeforeLookup ==
    \A t \in ThumbRequests :
        /\ th[t].variant = "part_000"
        /\ ThumbFailedAt(t, "GetVideo") \/ ThumbFailedAt(t, "owner check")
        => /\ th[t].status \in {404, 401}
           /\ ~ThumbCalled(t, "os.Create")
           /\ \A f \in assets : f.owner # t

\* Nothing but the reading and the test of the content type failed.
OnlyTypeFailures(t) ==
    \A i \in 1..Len(th[t].calls) :
        ~th[t].calls[i].ok =>
            th[t].calls[i].op \in {"ParseMediaType", "content type check"}

\* C17: in both variants a file part whose declared content type is neither
\* image/jpeg nor image/png is rejected with 400 and the request does not
\* update the thumbnail URL of the record; stated for the requests in which
\* nothing else goes wrong.
C17_OtherTypesRejected ==
    \A t \in ThumbRequests :
        /\ ThumbReturned(t)
        /\ ThumbSucceeded(t, "FormFile")
        /\ DeclaredType(t) \notin {ImageJPEG, ImagePNG}
        /\ OnlyTypeFailures(t)
        => /\ th[t].status = 400
           /\ ~ThumbSucceeded(t, "UpdateVideo")

\* C18: whenever the handler responds with a status other than 200, the
\* request has not changed the location of the record, also when the
\* re-read after the update is what failed.
C18_NoLocationUnlessOK ==
    \A r \in Requests :
        req[r].status \notin {0, 200} => ~Succeeded(r, "UpdateVideoURL")

\* The position of the response in the call log of request r.
Responses(r) == {i \in 1..Len(req[r].calls) : req[r].calls[i].op = "WriteHeader"}

\* One response, with a status, and after it nothing but deferred cleanup.
RespondedOnceAtTheEnd(r) ==
    /\ Cardinality(Responses(r)) = 1
    /\ req[r].status # 0
    /\ req[r].status = 200 <=> ~HasFailure(r)
    /\ \A i \in Responses(r) : \A j \in (i + 1)..Len(req[r].calls) :
          req[r].calls[j].op \in CleanupOps \ {"WriteHeader"}

\* C19: when every blocking call returns, every invocation eventually
\* terminates, Complete or Failed, having sent exactly one response, and
\* the response follows the last pipeline step the invocation executed.
C19_TerminatesWithOneResponse ==
    /\ \A r \in Requests : <>Returned(r)
    /\ [](\A r \in Requests :
            /\ Cardinality(Responses(r)) <= 1
            /\ Returned(r) => RespondedOnceAtTheEnd(r))

C19_Witness ==
    \E r1, r2 \in Requests :
        /\ Returned(r1) /\ req[r1].status = 200 /\ RespondedOnceAtTheEnd(r1)
        /\ Returned(r2) /\ req[r2].status \notin {0, 200} /\ RespondedOnceAtTheEnd(r2)

====
